---- MODULE Spec2Model ----
(***************************************************************************)
(* Model of src/esim.py: the eSIM profile class and the eSIMManagerApp     *)
(* controller (Tkinter event loop, modal dialogs, the `after` ticker).     *)
(*                                                                         *)
(* Conventions                                                             *)
(*  - A Python str is a TLA+ string; Python None is the constant None and  *)
(*    a value returned by a dialog is boxed: <<>> is None, <<s>> is the    *)
(*    string s.                                                            *)
(*  - esims is the Python list self.esims as a 1-based sequence; the       *)
(*    reference self.selected_esim is the 1-based position of the object   *)
(*    in esims, 0 for None (objects are never removed or reordered).       *)
(*  - An event is the description given to log_event, as a tuple whose     *)
(*    first element is the text and whose other elements are the values    *)
(*    formatted into it.  The "[%Y-%m-%d %H:%M:%S] " prefix is the wall    *)
(*    clock and is not modelled.                                           *)
(*  - The draws of random / uuid are opaque tokens <<seed, k, field>>.     *)
(***************************************************************************)
EXTENDS Integers, Sequences, FiniteSets, TLC

VARIABLES
    esims,          \* eSIMManagerApp.esims: sequence of eSIM records
    selected_esim,  \* eSIMManagerApp.selected_esim: position in esims, 0 = None
    pc,             \* where the Tk event loop is: "idle" or the modal dialog a handler is blocked in
    pending,        \* number of root.after callbacks scheduled and not yet fired
    call,           \* the last eSIM method call: method, target, arg, ret, during
    ncalls,         \* number of eSIM method / constructor calls made after construction
    applied         \* per profile: number of mutator calls that were applied (did not return False)

vars == <<esims, selected_esim, pc, pending, call, ncalls, applied>>

----------------------------------------------------------------------------
(* Bounds of the model *)

\* eSIM method calls explored after construction
MaxCalls == 2
\* distinct random streams the generators can draw from
MaxSeed == 1

(* Program constants *)

data_limit_default == 10000
demo_usage_1 == 1250
demo_usage_3 == 450
randint_lo == 1
randint_hi == 20

None == <<>>
Str(s) == <<s>>
\* Faulty variant of Truthy: a test against None only, which lets "" through
Truthy_is_not_none(x) == x # None

\* Python truthiness of an optional string: None and "" are falsy
Truthy(x) == x # None /\ x[1] # ""

----------------------------------------------------------------------------
(* class eSIM *)

_generate_imsi(r) == <<"208", "01", <<r, "msin">>>>
_generate_iccid(r) == <<"8933", <<r, "ccn">>>>
_generate_msisdn(r) == <<"336", <<r, "sn">>>>
_generate_auth_key(r, which) == <<"sha256[:32]", <<r, which>>>>

\* Faulty variant of log_event: the new entry is put first
log_event_prepend(self, description) ==
    [self EXCEPT !.events = <<description>> \o self.events]

\* eSIM.log_event: append the description at the end of self.events
log_event(self, description) ==
    [self EXCEPT !.events = Append(self.events, description)]

\* Faulty variant of eSIM.__init__: the new profile starts Active
eSIM_starts_active(operator, r) ==
    log_event(
        [imsi          |-> _generate_imsi(r),
         iccid         |-> _generate_iccid(r),
         msisdn        |-> _generate_msisdn(r),
         operator      |-> IF Truthy(operator) THEN operator[1] ELSE "OpérateurDemo",
         profile_state |-> "Active",
         ki            |-> _generate_auth_key(r, "ki"),
         opc           |-> _generate_auth_key(r, "opc"),
         data_usage    |-> 0,
         data_limit    |-> data_limit_default,
         events        |-> <<>>],
        <<"Création de l'eSIM">>)

\* eSIM.__init__(operator=operator), r the random draw of this construction
eSIM(operator, r) ==
    log_event(
        [imsi          |-> _generate_imsi(r),
         iccid         |-> _generate_iccid(r),
         msisdn        |-> _generate_msisdn(r),
         operator      |-> IF Truthy(operator) THEN operator[1] ELSE "OpérateurDemo",
         profile_state |-> "Inactive",
         ki            |-> _generate_auth_key(r, "ki"),
         opc           |-> _generate_auth_key(r, "opc"),
         data_usage    |-> 0,
         data_limit    |-> data_limit_default,
         events        |-> <<>>],
        <<"Création de l'eSIM">>)

\* Faulty variant of activate: the state guard is missing
activate_unguarded(self) ==
    [self |-> log_event([self EXCEPT !.profile_state = "Active"],
                        <<"Activation du profil">>),
     ret  |-> "True"]

\* Each method returns the object after the call and the value returned.
activate(self) ==
    IF self.profile_state # "Active"
    THEN [self |-> log_event([self EXCEPT !.profile_state = "Active"],
                             <<"Activation du profil">>),
          ret  |-> "True"]
    ELSE [self |-> self, ret |-> "False"]

\* Faulty variant of deactivate: it also clears the usage counter
deactivate_clears_usage(self) ==
    IF self.profile_state # "Inactive"
    THEN [self |-> log_event([self EXCEPT !.profile_state = "Inactive", !.data_usage = 0],
                             <<"Désactivation du profil">>),
          ret  |-> "True"]
    ELSE [self |-> self, ret |-> "False"]

deactivate(self) ==
    IF self.profile_state # "Inactive"
    THEN [self |-> log_event([self EXCEPT !.profile_state = "Inactive"],
                             <<"Désactivation du profil">>),
          ret  |-> "True"]
    ELSE [self |-> self, ret |-> "False"]

\* Faulty variant of disable: only an Active profile can be disabled
disable_only_from_active(self) ==
    IF self.profile_state = "Active"
    THEN [self |-> log_event([self EXCEPT !.profile_state = "Disabled"],
                             <<"Désactivation définitive du profil">>),
          ret  |-> "True"]
    ELSE [self |-> self, ret |-> "False"]

disable(self) ==
    IF self.profile_state # "Disabled"
    THEN [self |-> log_event([self EXCEPT !.profile_state = "Disabled"],
                             <<"Désactivation définitive du profil">>),
          ret  |-> "True"]
    ELSE [self |-> self, ret |-> "False"]

\* Faulty variant of add_data_usage: the counter is capped at data_limit
add_data_usage_clamped(self, amount) ==
    LET total == self.data_usage + amount
        kept  == IF total > self.data_limit THEN self.data_limit ELSE total
    IN  [self |-> log_event([self EXCEPT !.data_usage = kept],
                            <<"Consommation de {amount} Mo de données", amount>>),
         ret  |-> "None"]

add_data_usage(self, amount) ==
    [self |-> log_event([self EXCEPT !.data_usage = self.data_usage + amount],
                        <<"Consommation de {amount} Mo de données", amount>>),
     ret  |-> "None"]

\* Faulty variant of reset_data_usage: old_usage is read after the counter is cleared
reset_data_usage_logs_new(self) ==
    [self |-> log_event([self EXCEPT !.data_usage = 0],
                        <<"Réinitialisation du compteur de données (ancien: {old_usage} Mo)", 0>>),
     ret  |-> "None"]

\* Faulty variant of reset_data_usage: the reset is not logged
reset_data_usage_unlogged(self) ==
    [self |-> [self EXCEPT !.data_usage = 0], ret |-> "None"]

reset_data_usage(self) ==
    LET old_usage == self.data_usage
    IN  [self |-> log_event([self EXCEPT !.data_usage = 0],
                            <<"Réinitialisation du compteur de données (ancien: {old_usage} Mo)",
                              old_usage>>),
         ret  |-> "None"]

\* Faulty variant of change_operator: the new operator issues a new IMSI
change_operator_new_imsi(self, new_operator) ==
    LET old_operator == self.operator
    IN  [self |-> log_event([self EXCEPT !.operator = new_operator,
                                         !.imsi = _generate_imsi(<<new_operator>>)],
                            <<"Changement d'opérateur: {old_operator} -> {new_operator}",
                              old_operator, new_operator>>),
         ret  |-> "None"]

change_operator(self, new_operator) ==
    LET old_operator == self.operator
    IN  [self |-> log_event([self EXCEPT !.operator = new_operator],
                            <<"Changement d'opérateur: {old_operator} -> {new_operator}",
                              old_operator, new_operator>>),
         ret  |-> "None"]

----------------------------------------------------------------------------
(* class eSIMManagerApp *)

Seeds == 1..MaxSeed

\* what simpledialog.askstring can return: cancelled, empty, a new name, an existing name
AskstringResults == {None, Str(""), Str("Free"), Str("Orange")}

\* the values of random.randint(1, 20) explored: both ends of the range and its middle
RandintDraws == {randint_lo, (randint_lo + randint_hi) \div 2, randint_hi}

\* what esim_listbox.curselection() can return: the listbox holds one row per
\* element of esims, so it is empty or holds one 0-based row index
Curselections(es) == {<<>>} \cup {<<index>> : index \in 0..(Len(es) - 1)}

\* Python list indexing list[index]: position in the 1-based sequence, 0 for IndexError
PyIndex(length, index) ==
    IF 0 <= index /\ index < length THEN index + 1
    ELSE IF -length <= index /\ index < 0 THEN length + index + 1
    ELSE 0

\* One method call on esims[i] whose outcome is r = [self, ret]
Invoke(i, method, arg, r) ==
    /\ ncalls < MaxCalls
    /\ esims' = [esims EXCEPT ![i] = r.self]
    /\ call' = [method |-> method, target |-> i, arg |-> arg, ret |-> r.ret, during |-> pc]
    /\ ncalls' = ncalls + 1
    /\ applied' = [applied EXCEPT ![i] = @ + (IF r.ret = "False" THEN 0 ELSE 1)]

\* eSIMManagerApp.create_demo_esims, s the random stream of the run
create_demo_esims(s) ==
    LET esim1 == add_data_usage(activate(eSIM(Str("Orange"), <<s, 1>>)).self, demo_usage_1).self
        esim2 == eSIM(Str("SFR"), <<s, 2>>)
        esim3 == add_data_usage(activate(eSIM(Str("Bouygues Telecom"), <<s, 3>>)).self, demo_usage_3).self
    IN  <<esim1, esim2, esim3>>

\* The mutator calls create_demo_esims applies to each profile it builds:
\* activate and add_data_usage on esim1 and esim3, none on esim2
create_demo_applied == <<2, 0, 2>>

\* Variant of simulate_targets: the superseded first definition of
\* simulate_data_usage (lines 368-374), which loops over every Active profile
simulate_targets_all_active(es, sel) ==
    {i \in 1..Len(es) : es[i].profile_state = "Active"}

\* Faulty variant of simulate_targets: the selected profile whatever its state
simulate_targets_any_state(es, sel) ==
    IF sel # 0 THEN {sel} ELSE {}

\* The profiles one firing of the live simulate_data_usage adds usage to
\* (the condition of its if statement): the selected one when it is Active
simulate_targets(es, sel) ==
    IF sel # 0 /\ es[sel].profile_state = "Active" THEN {sel} ELSE {}

\* Faulty variant of simulate_apply: the counter is bumped without add_data_usage,
\* so the usage is not logged
simulate_apply_unlogged(es, targets, used) ==
    [i \in 1..Len(es) |->
        IF i \in targets
        THEN [es[i] EXCEPT !.data_usage = es[i].data_usage + used[i]]
        ELSE es[i]]

\* Faulty variant of simulate_apply: the trailing fragment of the superseded
\* definition runs too and disables the profile
simulate_apply_then_disable(es, targets, used) ==
    [i \in 1..Len(es) |->
        IF i \in targets THEN disable(add_data_usage(es[i], used[i]).self).self
        ELSE es[i]]

\* The profiles after one firing, used[i] the randint drawn for profile i
simulate_apply(es, targets, used) ==
    [i \in 1..Len(es) |->
        IF i \in targets THEN add_data_usage(es[i], used[i]).self ELSE es[i]]

\* Faulty variant of root_after: the next firing is scheduled only by a firing
\* that added usage
root_after_when_applied(targets) == IF targets = {} THEN 0 ELSE 1

\* The number of callbacks one run of simulate_data_usage schedules with
\* self.root.after(10000, self.simulate_data_usage): the call is its last
\* statement, outside the if, so it is made once whatever the targets are
root_after(targets) == 1

\* State after eSIMManagerApp.__init__: the demo profiles, the first one
\* selected, and the first simulate_data_usage() call made (line 135), which
\* schedules the next one
Init ==
    \E s \in Seeds :
      LET es  == create_demo_esims(s)
          sel == IF Len(es) > 0 THEN 1 ELSE 0
          tg  == simulate_targets(es, sel)
      IN  \E used \in [tg -> RandintDraws] :
            /\ esims = simulate_apply(es, tg, used)
            /\ selected_esim = sel
            /\ pc = "idle"
            /\ pending = root_after(tg)
            /\ call = [method |-> "__init__", target |-> 0, arg |-> None,
                       ret |-> "None", during |-> "__init__"]
            /\ ncalls = 0
            /\ applied = [i \in 1..Len(es) |->
                            create_demo_applied[i] + (IF i \in tg THEN 1 ELSE 0)]

\* Faulty variant of on_esim_select: an empty curselection() clears the selection
on_esim_select_clears ==
    /\ pc = "idle"
    /\ \E cur \in Curselections(esims) :
         selected_esim' = IF cur = <<>> THEN 0 ELSE PyIndex(Len(esims), cur[1])
    /\ UNCHANGED <<esims, pc, pending, call, ncalls, applied>>

\* The body of on_esim_select: the selection after it ran with curselection()
\* equal to cur; an IndexError, of cur[0] or of self.esims[index], is swallowed
selected_after(es, sel, cur) ==
    LET pos == IF cur = <<>> THEN 0 ELSE PyIndex(Len(es), cur[1])
    IN  IF pos = 0 THEN sel ELSE pos

\* eSIMManagerApp.on_esim_select, cur the listbox's curselection()
on_esim_select ==
    /\ pc = "idle"
    /\ \E cur \in Curselections(esims) :
         selected_esim' = selected_after(esims, selected_esim, cur)
    /\ UNCHANGED <<esims, pc, pending, call, ncalls, applied>>

\* eSIMManagerApp.activate_esim up to the showinfo it ends in
activate_esim ==
    /\ pc = "idle"
    /\ IF selected_esim = 0
       THEN UNCHANGED <<esims, call, ncalls, applied>>
       ELSE Invoke(selected_esim, "activate", None, activate(esims[selected_esim]))
    /\ pc' = "showinfo"
    /\ UNCHANGED <<selected_esim, pending>>

\* eSIMManagerApp.deactivate_esim up to the showinfo it ends in
deactivate_esim ==
    /\ pc = "idle"
    /\ IF selected_esim = 0
       THEN UNCHANGED <<esims, call, ncalls, applied>>
       ELSE Invoke(selected_esim, "deactivate", None, deactivate(esims[selected_esim]))
    /\ pc' = "showinfo"
    /\ UNCHANGED <<selected_esim, pending>>

\* eSIMManagerApp.disable_esim up to its first dialog
disable_esim ==
    /\ pc = "idle"
    /\ pc' = IF selected_esim = 0 THEN "showinfo" ELSE "askyesno"
    /\ UNCHANGED <<esims, selected_esim, pending, call, ncalls, applied>>

\* Faulty variant of disable_esim_askyesno: "Supprimer" takes the profile out
\* of self.esims after disabling it
disable_esim_askyesno_removes ==
    /\ pc = "askyesno"
    /\ \E confirm \in BOOLEAN :
         IF ~confirm
         THEN pc' = "idle" /\ UNCHANGED <<esims, selected_esim, call, ncalls, applied>>
         ELSE LET keep == {i \in 1..Len(esims) : i # selected_esim}
                  Without(seq) == [k \in 1..(Len(seq) - 1) |->
                                      IF k < selected_esim THEN seq[k] ELSE seq[k + 1]]
              IN  /\ ncalls < MaxCalls
                  /\ esims' = Without(esims)
                  /\ applied' = Without(applied)
                  /\ selected_esim' = IF keep = {} THEN 0 ELSE 1
                  /\ ncalls' = ncalls + 1
                  /\ call' = [method |-> "disable", target |-> selected_esim, arg |-> None,
                              ret |-> "True", during |-> pc]
                  /\ pc' = "showinfo"
    /\ UNCHANGED pending

\* eSIMManagerApp.disable_esim from the answer to askyesno on
disable_esim_askyesno ==
    /\ pc = "askyesno"
    /\ \E confirm \in BOOLEAN :
         IF ~confirm
         THEN pc' = "idle" /\ UNCHANGED <<esims, call, ncalls, applied>>
         ELSE /\ Invoke(selected_esim, "disable", None, disable(esims[selected_esim]))
              /\ pc' = "showinfo"
    /\ UNCHANGED <<selected_esim, pending>>

\* eSIMManagerApp.create_new_esim (final definition) up to askstring
create_new_esim ==
    /\ pc = "idle"
    /\ pc' = "askstring_create"
    /\ UNCHANGED <<esims, selected_esim, pending, call, ncalls, applied>>

\* eSIMManagerApp.create_new_esim (final definition) from the answer to askstring on
create_new_esim_askstring ==
    /\ pc = "askstring_create"
    /\ \E operator \in AskstringResults :
         IF Truthy(operator)
         THEN \E s \in Seeds :
                /\ ncalls < MaxCalls
                /\ esims' = Append(esims, eSIM(operator, <<s, Len(esims) + 1>>))
                /\ selected_esim' = Len(esims) + 1
                /\ applied' = Append(applied, 0)
                /\ ncalls' = ncalls + 1
                /\ call' = [method |-> "__init__", target |-> Len(esims) + 1,
                            arg |-> operator, ret |-> "None", during |-> pc]
                /\ pc' = "showinfo"
         ELSE pc' = "idle" /\ UNCHANGED <<esims, selected_esim, call, ncalls, applied>>
    /\ UNCHANGED pending

\* eSIMManagerApp.change_operator (final definition) up to its first dialog
eSIMManagerApp_change_operator ==
    /\ pc = "idle"
    /\ pc' = IF selected_esim = 0 THEN "showinfo" ELSE "askstring_operator"
    /\ UNCHANGED <<esims, selected_esim, pending, call, ncalls, applied>>

\* eSIMManagerApp.change_operator (final definition) from the answer to askstring on
change_operator_askstring ==
    /\ pc = "askstring_operator"
    /\ \E new_operator \in AskstringResults :
         IF Truthy(new_operator)
         THEN /\ Invoke(selected_esim, "change_operator", new_operator,
                        change_operator(esims[selected_esim], new_operator[1]))
              /\ pc' = "showinfo"
         ELSE pc' = "idle" /\ UNCHANGED <<esims, call, ncalls, applied>>
    /\ UNCHANGED <<selected_esim, pending>>

\* eSIMManagerApp.reset_data (final definition) up to the showinfo it ends in
reset_data ==
    /\ pc = "idle"
    /\ IF selected_esim = 0
       THEN UNCHANGED <<esims, call, ncalls, applied>>
       ELSE Invoke(selected_esim, "reset_data_usage", None, reset_data_usage(esims[selected_esim]))
    /\ pc' = "showinfo"
    /\ UNCHANGED <<selected_esim, pending>>

\* The user closes a messagebox.showinfo; what follows it in every handler
\* only redraws widgets
showinfo_return ==
    /\ pc = "showinfo"
    /\ pc' = "idle"
    /\ UNCHANGED <<esims, selected_esim, pending, call, ncalls, applied>>

\* eSIMManagerApp.simulate_data_usage (final definition), lines 432-436: the
\* if statement of one firing, run while the program is at position during.
simulate_data_usage_body(during) ==
    LET tg == simulate_targets(esims, selected_esim)
    IN  /\ ncalls + Cardinality(tg) <= MaxCalls
        /\ \E used \in [tg -> RandintDraws] :
             /\ esims' = simulate_apply(esims, tg, used)
             /\ call' = IF tg = {} THEN call
                        ELSE LET i == CHOOSE j \in tg : \A k \in tg : k <= j
                             IN  [method |-> "add_data_usage", target |-> i,
                                  arg |-> <<used[i]>>, ret |-> "None", during |-> during]
        /\ ncalls' = ncalls + Cardinality(tg)
        /\ applied' = [i \in 1..Len(applied) |-> applied[i] + (IF i \in tg THEN 1 ELSE 0)]
        /\ UNCHANGED selected_esim

\* eSIMManagerApp.simulate_data_usage (final definition): one firing of the
\* root.after callback, as one step: the callback leaves the timer queue, the
\* body runs and schedules the next firing.  Tk runs it from whichever event
\* loop is running, the main loop or the local loop of a modal dialog, so it is
\* enabled at every pc.
simulate_data_usage ==
    /\ pending > 0
    /\ simulate_data_usage_body(pc)
    /\ pending' = (pending - 1) + root_after(simulate_targets(esims, selected_esim))
    /\ UNCHANGED pc

Next ==
    \/ on_esim_select
    \/ activate_esim
    \/ deactivate_esim
    \/ disable_esim
    \/ disable_esim_askyesno
    \/ create_new_esim
    \/ create_new_esim_askstring
    \/ eSIMManagerApp_change_operator
    \/ change_operator_askstring
    \/ reset_data
    \/ showinfo_return
    \/ simulate_data_usage

Spec == Init /\ [][Next]_vars

----------------------------------------------------------------------------
(* The eSIM class on its own: one object, its public methods called directly *)
(* with arguments of every kind a caller can pass.                          *)

\* operator arguments of the constructor: omitted, empty, a name
OperatorArgs == {None, Str(""), Str("Orange")}
\* amount arguments of add_data_usage: negative, zero, the demo amounts, a large one
AmountArgs == {-5, 0, demo_usage_3, demo_usage_1, 9000}
\* new_operator arguments of change_operator
NewOperatorArgs == {"", "Free"}

InitProfile ==
    \E s \in Seeds, operator \in OperatorArgs :
        /\ esims = <<eSIM(operator, <<s, 1>>)>>
        /\ selected_esim = 0
        /\ pc = "api"
        /\ pending = 0
        /\ call = [method |-> "__init__", target |-> 1, arg |-> operator,
                   ret |-> "None", during |-> "api"]
        /\ ncalls = 0
        /\ applied = <<0>>

api_activate ==
    /\ Invoke(1, "activate", None, activate(esims[1]))
    /\ UNCHANGED <<selected_esim, pc, pending>>

api_deactivate ==
    /\ Invoke(1, "deactivate", None, deactivate(esims[1]))
    /\ UNCHANGED <<selected_esim, pc, pending>>

api_disable ==
    /\ Invoke(1, "disable", None, disable(esims[1]))
    /\ UNCHANGED <<selected_esim, pc, pending>>

api_add_data_usage ==
    /\ \E amount \in AmountArgs :
         Invoke(1, "add_data_usage", <<amount>>, add_data_usage(esims[1], amount))
    /\ UNCHANGED <<selected_esim, pc, pending>>

api_reset_data_usage ==
    /\ Invoke(1, "reset_data_usage", None, reset_data_usage(esims[1]))
    /\ UNCHANGED <<selected_esim, pc, pending>>

api_change_operator ==
    /\ \E new_operator \in NewOperatorArgs :
         Invoke(1, "change_operator", Str(new_operator),
                change_operator(esims[1], new_operator))
    /\ UNCHANGED <<selected_esim, pc, pending>>

NextProfile ==
    \/ api_activate
    \/ api_deactivate
    \/ api_disable
    \/ api_add_data_usage
    \/ api_reset_data_usage
    \/ api_change_operator

SpecProfile == InitProfile /\ [][NextProfile]_vars

----------------------------------------------------------------------------
(* The selection logic of on_esim_select on its own: the handler run with     *)
(* every index, also those a listbox in step with esims does not report, on   *)
(* registries of several lengths (create is kept to lengthen esims).          *)

\* index values given to self.esims[index]: from below -len to above len - 1
CurselectionArgs(es) ==
    {<<>>} \cup {<<index>> : index \in (0 - Len(es) - 1)..(Len(es) + 2)}

\* on_esim_select with curselection() equal to cur, recorded in call
api_on_esim_select ==
    /\ pc = "idle"
    /\ \E cur \in CurselectionArgs(esims) :
         /\ selected_esim' = selected_after(esims, selected_esim, cur)
         /\ call' = [method |-> "on_esim_select", target |-> selected_esim',
                     arg |-> cur, ret |-> "None", during |-> pc]
    /\ UNCHANGED <<esims, pc, pending, ncalls, applied>>

NextSelect ==
    \/ api_on_esim_select
    \/ create_new_esim
    \/ create_new_esim_askstring
    \/ showinfo_return

SpecSelect == Init /\ [][NextSelect]_vars

-----------------------------------------------------------------------------
(* The ticker step by step: Tk takes the due callback off its timer queue and
   calls it (after_dispatch), then the body runs to its last statement, the
   root.after call (after_callback).  While the callback runs, pc is the
   position simulate_pc[p] for the position p the event loop was entered at,
   so no handler and no other firing starts before it returns. *)

simulate_pc ==
    [idle               |-> "simulate_data_usage",
     showinfo           |-> "simulate_data_usage in showinfo",
     askyesno           |-> "simulate_data_usage in askyesno",
     askstring_create   |-> "simulate_data_usage in askstring_create",
     askstring_operator |-> "simulate_data_usage in askstring_operator"]

\* A firing is running
InFiring == \E p \in DOMAIN simulate_pc : pc = simulate_pc[p]

\* The event loop finds a callback due and calls it
after_dispatch ==
    /\ pc \in DOMAIN simulate_pc
    /\ pending > 0
    /\ pending' = pending - 1
    /\ pc' = simulate_pc[pc]
    /\ UNCHANGED <<esims, selected_esim, call, ncalls, applied>>

\* The callback runs: the if statement, then root.after, then it returns to
\* the event loop that called it
after_callback ==
    \E p \in DOMAIN simulate_pc :
      /\ pc = simulate_pc[p]
      /\ simulate_data_usage_body(p)
      /\ pending' = pending + root_after(simulate_targets(esims, selected_esim))
      /\ pc' = p

NextTicker ==
    \/ after_dispatch
    \/ after_callback
    \/ on_esim_select
    \/ activate_esim
    \/ deactivate_esim
    \/ disable_esim
    \/ disable_esim_askyesno
    \/ showinfo_return

\* The event loop, the main one or a dialog's, calls a due callback, and the
\* callback, straight-line code, returns
SpecTicker ==
    /\ Init
    /\ [][NextTicker]_vars
    /\ WF_vars(after_dispatch)
    /\ WF_vars(after_callback)

----------------------------------------------------------------------------
(* Vocabulary of the properties *)

Profiles == 1..Len(esims)

\* This step is one call of the eSIM method m
CallStep(m) == ncalls' = ncalls + 1 /\ call'.method = m

\* The state a transition method moves to, and the description it logs
TargetState(m) ==
    CASE m = "activate"   -> "Active"
      [] m = "deactivate" -> "Inactive"
      [] m = "disable"    -> "Disabled"
TransitionEvent(m) ==
    CASE m = "activate"   -> <<"Activation du profil">>
      [] m = "deactivate" -> <<"Désactivation du profil">>
      [] m = "disable"    -> <<"Désactivation définitive du profil">>
Transitions == {"activate", "deactivate", "disable"}

IsPrefix(a, b) == Len(a) <= Len(b) /\ SubSeq(b, 1, Len(a)) = a

IsUsageEvent(e) == e[1] = "Consommation de {amount} Mo de données"
IsResetEvent(e) == e[1] = "Réinitialisation du compteur de données (ancien: {old_usage} Mo)"

\* Sum of the amounts of the usage events logged after the last reset event
RECURSIVE UsageSinceReset(_)
UsageSinceReset(events) ==
    IF events = <<>> THEN 0
    ELSE LET e == events[Len(events)]
             before == SubSeq(events, 1, Len(events) - 1)
         IN  IF IsResetEvent(e) THEN 0
             ELSE IF IsUsageEvent(e) THEN UsageSinceReset(before) + e[2]
             ELSE UsageSinceReset(before)

\* The state the transition events of a log leave the profile in
RECURSIVE StateOfLog(_)
StateOfLog(events) ==
    IF events = <<>> THEN "Inactive"
    ELSE LET e == events[Len(events)]
         IN  IF \E m \in Transitions : e = TransitionEvent(m)
             THEN TargetState(CHOOSE m \in Transitions : e = TransitionEvent(m))
             ELSE StateOfLog(SubSeq(events, 1, Len(events) - 1))

----------------------------------------------------------------------------
(* Properties *)

C2_TransitionNoOp ==
    [][\A m \in Transitions :
         (CallStep(m) /\ esims[call'.target].profile_state = TargetState(m)) =>
            /\ call'.ret = "False"
            /\ esims' = esims]_vars

\* activate() twice in a row on the second demo profile: the second call
\* returned False and the log holds the creation and one activation
C2_Witness ==
    /\ ncalls = 2
    /\ call.method = "activate" /\ call.target = 2 /\ call.ret = "False"
    /\ esims[2].events = <<<<"Création de l'eSIM">>, <<"Activation du profil">>>>

\* C3: Disabled is terminal: a profile whose state is Disabled stays Disabled
\* across every step.
C3_DisabledTerminal ==
    [][\A i \in Profiles :
         esims[i].profile_state = "Disabled" => esims'[i].profile_state = "Disabled"]_vars

\* C4: the event log of every profile is append-only: across every step the
\* log before is a prefix of the log after; the log is never empty and its
\* first entry is the creation event.
C4_EventsAppendOnly ==
    /\ [](\A i \in Profiles :
            /\ Len(esims[i].events) >= 1
            /\ esims[i].events[1] = <<"Création de l'eSIM">>)
    /\ [][\A i \in Profiles : IsPrefix(esims[i].events, esims'[i].events)]_vars

\* the second demo profile, created with one event, has had two more appended
C4_Witness ==
    /\ ncalls = 2
    /\ Len(esims[2].events) = 3

\* C5: every applied mutation appends exactly one event: the log of a profile
\* holds the creation event plus one event per applied mutator call; no step
\* changes state, data_usage or operator without appending an event, and no
\* step appends more than one event to a profile.
C5_OneEventPerMutation ==
    /\ [](\A i \in Profiles : Len(esims[i].events) = 1 + applied[i])
    /\ [][\A i \in Profiles :
            LET grown == Len(esims'[i].events) - Len(esims[i].events)
            IN  /\ grown \in {0, 1}
                /\ (\/ esims'[i].profile_state # esims[i].profile_state
                    \/ esims'[i].data_usage # esims[i].data_usage
                    \/ esims'[i].operator # esims[i].operator) => grown = 1]_vars

\* the first demo profile after a reset and an operator change on top of the
\* three mutations of the construction
C5_Witness ==
    /\ ncalls = 2
    /\ applied[1] = 5
    /\ esims[1].data_usage = 0
    /\ esims[1].operator = "Free"

\* C6: a ticker firing and a command never interleave inside a mutation: in
\* every state, the states in which a handler is blocked in a dialog included,
\* the fields of a profile agree with its log: data_usage is the sum of the
\* usage amounts logged since the last reset (or since creation) and
\* profile_state is the state the logged transitions lead to.
C6_FieldsAgreeWithLog ==
    \A i \in Profiles :
        /\ esims[i].data_usage = UsageSinceReset(esims[i].events)
        /\ esims[i].profile_state = StateOfLog(esims[i].events)

\* disable_esim is blocked in its confirmation dialog and a firing has just
\* added usage to the selected profile
C6_Witness ==
    /\ pc = "askyesno"
    /\ ncalls = 1
    /\ call.method = "add_data_usage" /\ call.during = "askyesno"
    /\ call.target = selected_esim

\* This step is a ticker firing that added usage
FiringStep == ncalls' > ncalls /\ call'.method = "add_data_usage"

\* Profile i gained one usage event in this step, of an amount the ticker draws
GainedUsage(i) ==
    LET amount == esims'[i].data_usage - esims[i].data_usage
    IN  /\ amount \in randint_lo..randint_hi
        /\ esims'[i].events =
             Append(esims[i].events, <<"Consommation de {amount} Mo de données", amount>>)

\* C7, as stated: each firing adds usage to every profile that is Active at
\* the time of the firing: each gains between 1 and 20 and one usage event.
C7_EveryActiveProfile ==
    [][FiringStep =>
         \A i \in Profiles : esims[i].profile_state = "Active" => GainedUsage(i)]_vars

\* C7, amended: each firing adds usage to the selected profile only, and only
\* if it is Active at the time of the firing: that profile gains between 1 and
\* 20 and one usage event, and every other profile, Active or not, is unchanged.
C7_SelectedActiveProfile ==
    [][FiringStep =>
         /\ selected_esim # 0
         /\ esims[selected_esim].profile_state = "Active"
         /\ GainedUsage(selected_esim)
         /\ \A i \in Profiles \ {selected_esim} : esims'[i] = esims[i]]_vars

\* a firing has added usage to the first demo profile while the third one,
\* Active too, still has the usage of its construction
C7_Witness ==
    /\ ncalls = 1
    /\ call.method = "add_data_usage" /\ call.target = 1
    /\ esims[3].profile_state = "Active"
    /\ esims[3].data_usage = demo_usage_3

\* C8: data_usage of every profile is never negative, and it decreases only
\* across a step that is a reset_data_usage call on that profile.
C8_UsageMonotonic ==
    /\ [](\A i \in Profiles : esims[i].data_usage >= 0)
    /\ [][\A i \in Profiles :
            esims'[i].data_usage < esims[i].data_usage =>
                (CallStep("reset_data_usage") /\ call'.target = i)]_vars

\* usage has been added again to a profile that was reset
C8_Witness ==
    /\ ncalls = 2
    /\ call.method = "add_data_usage"
    /\ LET ev == esims[call.target].events
       IN  /\ IsResetEvent(ev[Len(ev) - 1])
           /\ esims[call.target].data_usage = ev[Len(ev)][2]

\* C9: add_data_usage(amount) with amount >= 0 sets data_usage to exactly the
\* previous value plus amount, also beyond data_limit, and appends one event
\* carrying that amount; 1250 then 450 on a fresh profile give 1700.
C9_AddAccumulates ==
    /\ [](esims[1].events = <<<<"Création de l'eSIM">>,
                              <<"Consommation de {amount} Mo de données", 1250>>,
                              <<"Consommation de {amount} Mo de données", 450>>>>
            => esims[1].data_usage = 1700)
    /\ [][(CallStep("add_data_usage") /\ call'.arg[1] >= 0) =>
            LET i == call'.target
                amount == call'.arg[1]
            IN  /\ esims'[i].data_usage = esims[i].data_usage + amount
                /\ esims'[i].events =
                     Append(esims[i].events,
                            <<"Consommation de {amount} Mo de données", amount>>)]_vars

\* two adds have taken the counter above data_limit
C9_Witness ==
    /\ call.method = "add_data_usage"
    /\ esims[1].data_usage = 10250
    /\ esims[1].data_usage > esims[1].data_limit
    /\ Len(esims[1].events) = 3

\* C10: add_data_usage with a negative amount is rejected: it does not return
\* normally and it leaves data_usage and the event log unchanged.
C10_NegativeRejected ==
    [][(CallStep("add_data_usage") /\ call'.arg[1] < 0) =>
         LET i == call'.target
         IN  /\ call'.ret # "None"
             /\ esims'[i].data_usage = esims[i].data_usage
             /\ esims'[i].events = esims[i].events]_vars

\* C11: reset_data_usage, in any profile state, sets data_usage to 0, appends
\* exactly one event, which records the value data_usage had just before the
\* call, and leaves the profile's state and operator unchanged.
C11_ResetRecordsOldUsage ==
    [][CallStep("reset_data_usage") =>
         LET i == call'.target
         IN  /\ esims'[i].data_usage = 0
             /\ esims'[i].events =
                  Append(esims[i].events,
                         <<"Réinitialisation du compteur de données (ancien: {old_usage} Mo)",
                           esims[i].data_usage>>)
             /\ esims'[i].profile_state = esims[i].profile_state
             /\ esims'[i].operator = esims[i].operator]_vars

\* the first demo profile was disabled and then reset: it is still Disabled
\* and the reset event holds the usage it had, 1250 plus the first firing
C11_Witness ==
    /\ ncalls = 2
    /\ call.method = "reset_data_usage" /\ call.target = 1
    /\ esims[1].profile_state = "Disabled"
    /\ esims[1].data_usage = 0
    /\ esims[1].events[6][2] > demo_usage_1

\* C12: the change-operator command with an empty (or cancelled) name is
\* rejected and leaves every profile unchanged; with a non-empty name it
\* succeeds in every profile state, sets operator to that name and appends one
\* event naming the old and the new operator; operator changes in no other
\* way, and no profile ever has an empty operator.
C12_OperatorNeverEmpty ==
    /\ [](\A i \in Profiles : esims[i].operator # "")
    /\ [][/\ \A i \in Profiles :
               esims'[i].operator # esims[i].operator =>
                   (CallStep("change_operator") /\ call'.target = i)
          /\ (pc = "askstring_operator" /\ pc' = "idle") => esims' = esims
          /\ CallStep("change_operator") =>
               LET i == call'.target
                   new_operator == call'.arg[1]
               IN  /\ new_operator # ""
                   /\ pc = "askstring_operator" /\ pc' = "showinfo"
                   /\ esims'[i].operator = new_operator
                   /\ esims'[i].events =
                        Append(esims[i].events,
                               <<"Changement d'opérateur: {old_operator} -> {new_operator}",
                                 esims[i].operator, new_operator>>)
                   /\ esims'[i].profile_state = esims[i].profile_state
                   /\ esims'[i].data_usage = esims[i].data_usage]_vars

\* the operator of the first demo profile was changed after it was disabled
C12_Witness ==
    /\ ncalls = 2
    /\ call.method = "change_operator" /\ call.target = 1
    /\ esims[1].profile_state = "Disabled"
    /\ esims[1].operator = "Free"
    /\ esims[1].events[6] = <<"Changement d'opérateur: {old_operator} -> {new_operator}",
                              "Orange", "Free">>

\* The identity of a profile object: the identifiers drawn at its construction
Identity(e) == <<e.imsi, e.iccid, e.msisdn, e.ki, e.opc>>

\* C13: profiles are never removed from the registry and never reordered:
\* across every step the sequence of profile objects before the step is a
\* prefix of the sequence after it, and only create lengthens it, by exactly
\* one object added at the end; a disabled profile stays in the collection.
C13_ProfilesOnlyGrow ==
    [][/\ Len(esims') >= Len(esims)
       /\ \A i \in Profiles : Identity(esims'[i]) = Identity(esims[i])
       /\ Len(esims') # Len(esims) =>
            /\ Len(esims') = Len(esims) + 1
            /\ pc = "askstring_create"
            /\ CallStep("__init__") /\ call'.target = Len(esims')]_vars

\* a profile was created and then the first demo profile was disabled: it is
\* still the first of the four profiles
C13_Witness ==
    /\ Len(esims) = 4
    /\ call.method = "disable" /\ call.target = 1 /\ call.ret = "True"
    /\ esims[1].profile_state = "Disabled"
    /\ esims[1].operator = "Orange"

\* C14: selected_esim is None or refers to an element of esims, and it is
\* never None while esims is non-empty; it is changed only by create (to the
\* new profile) and by a successful select (to an element of esims):
\* activate, deactivate, disable, reset, change-operator and the ticker leave
\* it unchanged.
C14_SelectionStable ==
    /\ [](/\ selected_esim \in 0..Len(esims)
          /\ selected_esim = 0 => Len(esims) = 0)
    /\ [][selected_esim' # selected_esim =>
            \/ /\ CallStep("__init__")
               /\ pc = "askstring_create"
               /\ selected_esim' = Len(esims')
            \/ /\ pc = "idle" /\ pc' = "idle"
               /\ selected_esim' \in 1..Len(esims)
               /\ UNCHANGED <<esims, call, ncalls>>]_vars

\* a profile was created (and selected), the selection was moved to the second
\* demo profile, and that profile was then activated: it is still the selection
C14_Witness ==
    /\ Len(esims) = 4
    /\ selected_esim = 2
    /\ call.method = "activate" /\ call.target = 2 /\ call.ret = "True"
    /\ pc = "showinfo"

\* C15: create with a non-empty operator appends exactly one new profile at
\* the end of esims, Inactive, with data_usage 0, that operator and exactly
\* one event, the creation event; it selects the new profile and leaves every
\* earlier profile unchanged.  With an empty or cancelled operator it changes
\* neither esims nor the selection.
C15_CreateAppendsFreshProfile ==
    [][(pc = "askstring_create" /\ pc' # pc) =>
         \/ /\ pc' = "idle"
            /\ UNCHANGED <<esims, selected_esim, ncalls>>
         \/ /\ pc' = "showinfo"
            /\ CallStep("__init__")
            /\ call'.arg # None /\ call'.arg[1] # ""
            /\ Len(esims') = Len(esims) + 1
            /\ SubSeq(esims', 1, Len(esims)) = esims
            /\ LET new_esim == esims'[Len(esims')]
               IN  /\ new_esim.operator = call'.arg[1]
                   /\ new_esim.profile_state = "Inactive"
                   /\ new_esim.data_usage = 0
                   /\ new_esim.events = <<<<"Création de l'eSIM">>>>
            /\ selected_esim' = Len(esims')]_vars

\* create("Free") has just added a fourth profile and selected it
C15_Witness ==
    /\ pc = "showinfo"
    /\ call.method = "__init__" /\ call.arg = Str("Free")
    /\ Len(esims) = 4
    /\ selected_esim = 4
    /\ esims[4].operator = "Free"

\* This step is one run of on_esim_select (under SpecSelect)
SelectStep == pc = "idle" /\ pc' = "idle" /\ call'.method = "on_esim_select"

C17_IdentifiersFixed ==
    /\ [](\A i \in Profiles :
            /\ esims[i].data_limit = 10000
            /\ esims[i].data_limit > 0)
    /\ [][\A i \in Profiles :
            /\ Identity(esims'[i]) = Identity(esims[i])
            /\ esims'[i].data_limit = esims[i].data_limit]_vars

\* the first demo profile after an operator change and a reset, two of the
\* commands that rewrite its record
C17_Witness ==
    /\ ncalls = 2
    /\ call.method = "reset_data_usage" /\ call.target = 1
    /\ esims[1].operator = "Free"
    /\ esims[1].data_usage = 0

\* C18: a firing of the ticker that does anything adds to the selected
\* profile only, and only if it is Active: an integer between 1 and 20 and one
\* usage event; every other profile, every profile's state and operator, the
\* profiles sequence, the selection and the open dialog are left unchanged;
\* and a profile becomes Disabled only by a disable call, never by a firing.
C18_FiringFrame ==
    [][/\ FiringStep =>
            /\ selected_esim # 0
            /\ call'.target = selected_esim
            /\ esims[selected_esim].profile_state = "Active"
            /\ GainedUsage(selected_esim)
            /\ esims'[selected_esim].data_usage - esims[selected_esim].data_usage
                 \in {n \in Int : 1 <= n /\ n <= 20}
            /\ Len(esims') = Len(esims)
            /\ \A i \in Profiles :
                 /\ i # selected_esim => esims'[i] = esims[i]
                 /\ esims'[i].profile_state = esims[i].profile_state
                 /\ esims'[i].operator = esims[i].operator
            /\ selected_esim' = selected_esim
            /\ pc' = pc
       /\ \A i \in Profiles :
            (esims'[i].profile_state = "Disabled" /\ esims[i].profile_state # "Disabled")
                => (CallStep("disable") /\ call'.target = i)]_vars

\* the third demo profile was selected and a firing has added usage to it,
\* while the first one, Active too, keeps what the start-up firing gave it
C18_Witness ==
    /\ selected_esim = 3
    /\ call.method = "add_data_usage" /\ call.target = 3
    /\ esims[3].profile_state = "Active"
    /\ esims[3].data_usage > demo_usage_3
    /\ esims[1].profile_state = "Active"
    /\ Len(esims[1].events) = 4

WasActivated(e) ==
    \E k \in 1..Len(e.events) : e.events[k] = TransitionEvent("activate")

\* C20: usage is only added to a profile that is Active at that moment: in
\* every step in which a profile's data_usage increases the profile is Active
\* before and after the step; the data_usage of a profile that is Inactive or
\* Disabled changes only by a reset; and a profile that was never activated
\* has data_usage 0 in every state.
C20_UsageOnlyWhileActive ==
    /\ [](\A i \in Profiles : ~WasActivated(esims[i]) => esims[i].data_usage = 0)
    /\ [][\A i \in Profiles :
            /\ esims'[i].data_usage > esims[i].data_usage =>
                 /\ esims[i].profile_state = "Active"
                 /\ esims'[i].profile_state = "Active"
            /\ (esims[i].profile_state # "Active"
                  /\ esims'[i].data_usage # esims[i].data_usage) =>
                 (CallStep("reset_data_usage") /\ call'.target = i)]_vars

\* the second demo profile, created Inactive with no usage, was activated and
\* a firing has then added usage to it
C20_Witness ==
    /\ ncalls = 2
    /\ call.method = "add_data_usage" /\ call.target = 2
    /\ WasActivated(esims[2])
    /\ esims[2].profile_state = "Active"
    /\ esims[2].data_usage > 0

====
